---- MODULE Spec2Model ----
(***************************************************************************)
(* Model of the GRIT RC output pipeline:                                   *)
(*   grit/node/include.py   : IncludeNode and its flatten caches           *)
(*   grit/format/rc.py      : locale tables, RcSubstitutions, the          *)
(*                            StringTable, Message, RcSection and RcInclude*)
(*                            formatters                                   *)
(* Text is modelled as sequences of one-character strings, bytes of files  *)
(* as short strings naming their content.  Each part of the pipeline has   *)
(* its own specification; the variables of the other parts stay idle.      *)
(***************************************************************************)
EXTENDS Integers, Sequences, FiniteSets, TLC

VARIABLES
  \* ---- the include node and its environment (include.py) ----
  attrs,               \* the node's attribute bag
  sep,                 \* os.sep of the platform the build runs on
  source,              \* bytes of the node's source file on disk
  tids,                \* rc_header.Item.tids_ : textual ids that have a numeric id
  flattened_data,      \* IncludeNode._flattened_data
  last_flat_filename,  \* IncludeNode._last_flat_filename
  fs,                  \* content of every destination file
  writeLog,            \* history: destination of every completed outfile.write
  inlineLog,           \* history: allow_external_script of every InlineToString call
  ret,                 \* outcome of the latest call on the node
  calls,               \* number of calls made so far
  \* ---- the locale lookups (rc.py) ----
  language,            \* the language code the build passes in
  looked,              \* what each lookup made for it returned
  \* ---- one message or structure node under its formatter (rc.py) ----
  item,                \* the node handed to Format
  root,                \* item.GetRoot(): the substituter of the pass, if any
  formatted,           \* what Format returned
  rcinclude,           \* the RcInclude formatter the node is handed to, if any
  \* ---- the tree walk of an output pass ----
  tree,                \* the children of the root, each with its own children
  walk,                \* the output kind and the position of the walk
  outfile,             \* the chunks written so far
  \* ---- the preamble of an RC file (rc.py, TopLevel) ----
  outputs,             \* item.GetRoot().GetOutputFiles(): the registered outputs
  pass,                \* the language and the output directory of the pass
  preamble             \* what TopLevel.Format returned

nodeVars == <<attrs, sep, source, tids, flattened_data, last_flat_filename,
              fs, writeLog, inlineLog, ret, calls>>

localeVars == <<language, looked>>

itemVars == <<item, root, formatted, rcinclude>>

walkVars == <<tree, walk, outfile>>

topVars == <<outputs, pass, preamble>>

vars == <<nodeVars, localeVars, itemVars, walkVars, topVars>>

-----------------------------------------------------------------------------
(* Bounds *)

MaxCalls == 3

\* longest message or structure text
MaxTextLen == 3

\* most children of the root of a tree
MaxTop == 2

\* most children of a grouping node
MaxKids == 2

-----------------------------------------------------------------------------
(* Text helpers *)

RECURSIVE Spaces(_)
Spaces(n) == IF n <= 0 THEN <<>> ELSE <<" ">> \o Spaces(n - 1)

\* '%-<w>s' % s : left-justified, padded with spaces to at least w columns
LJust(s, w) == s \o Spaces(w - Len(s))

\* str.replace(old, new) for a one-character old
RECURSIVE Replace(_, _, _)
Replace(s, old, new) ==
  IF s = <<>> THEN <<>>
  ELSE (IF Head(s) = old THEN new ELSE <<Head(s)>>) \o Replace(Tail(s), old, new)

RECURSIVE Count(_, _)
Count(s, c) ==
  IF s = <<>> THEN 0 ELSE (IF Head(s) = c THEN 1 ELSE 0) + Count(Tail(s), c)

LowerCase == <<"a", "b", "c", "d", "e", "f", "g", "h", "i", "j", "k", "l", "m",
               "n", "o", "p", "q", "r", "s", "t", "u", "v", "w", "x", "y", "z">>

UpperCase == <<"A", "B", "C", "D", "E", "F", "G", "H", "I", "J", "K", "L", "M",
               "N", "O", "P", "Q", "R", "S", "T", "U", "V", "W", "X", "Y", "Z">>

IsLower(c) == \E i \in 1..Len(LowerCase) : LowerCase[i] = c

\* str.upper() on one character
Upper(c) ==
  IF IsLower(c) THEN UpperCase[CHOOSE i \in 1..Len(LowerCase) : LowerCase[i] = c]
  ELSE c

UpperStr(s) == [i \in 1..Len(s) |-> Upper(s[i])]

-----------------------------------------------------------------------------
(* Paths (os.path) *)

BackSlash == "\\"

\* the characters os.path treats as separators on the platform
Seps(s) == IF s = BackSlash THEN {"/", BackSlash} ELSE {"/"}

\* index of the last separator of p, 0 when there is none
LastSep(p, s) ==
  IF \E i \in 1..Len(p) : p[i] \in Seps(s)
  THEN CHOOSE i \in 1..Len(p) :
         /\ p[i] \in Seps(s)
         /\ \A j \in (i+1)..Len(p) : p[j] \notin Seps(s)
  ELSE 0

BaseName(p, s) == SubSeq(p, LastSep(p, s) + 1, Len(p))

PathJoin(d, f, s) ==
  IF d = <<>> THEN f
  ELSE IF d[Len(d)] \in Seps(s) THEN d \o f
  ELSE d \o <<s>> \o f

\* the components of an absolute path
RECURSIVE Components(_, _)
Components(p, s) ==
  IF p = <<>> THEN <<>>
  ELSE IF Head(p) \in Seps(s) THEN Components(Tail(p), s)
  ELSE LET n == IF \E i \in 1..Len(p) : p[i] \in Seps(s)
                THEN (CHOOSE i \in 1..Len(p) :
                        /\ p[i] \in Seps(s)
                        /\ \A j \in 1..(i-1) : p[j] \notin Seps(s)) - 1
                ELSE Len(p)
       IN  <<SubSeq(p, 1, n)>> \o Components(SubSeq(p, n + 1, Len(p)), s)

RECURSIVE CommonPrefixLen(_, _)
CommonPrefixLen(a, b) ==
  IF a = <<>> \/ b = <<>> THEN 0
  ELSE IF Head(a) = Head(b) THEN 1 + CommonPrefixLen(Tail(a), Tail(b))
  ELSE 0

RECURSIVE JoinComponents(_, _)
JoinComponents(cs, s) ==
  IF cs = <<>> THEN <<>>
  ELSE IF Len(cs) = 1 THEN cs[1]
  ELSE cs[1] \o <<s>> \o JoinComponents(Tail(cs), s)

\* util.MakeRelativePath(base_path, path_to_make_relative)
MakeRelativePath(base, path, s) ==
  LET bc == Components(base, s)
      pc == Components(path, s)
      k  == CommonPrefixLen(bc, pc)
      ups == [i \in 1..(Len(bc) - k) |-> <<".", ".">>]
  IN  JoinComponents(ups \o SubSeq(pc, k + 1, Len(pc)), s)

-----------------------------------------------------------------------------
(* The locale tables and their lookups (rc.py) *)

\* _LANGUAGE_CHARSET_PAIR : language code -> LCID and code page, 8 hex digits
LANGUAGE_CHARSET_PAIR ==
  (<<"n", "e", "u", "t", "r", "a", "l">> :> <<"0", "0", "0", "0", "0", "4", "b", "0">>)
  @@ (<<"u", "s", "e", "r", "d", "e", "f", "a", "u", "l", "t">> :> <<"0", "4", "0", "0", "0", "4", "b", "0">>)
  @@ (<<"a", "r">> :> <<"0", "4", "0", "1", "0", "4", "e", "8">>)
  @@ (<<"f", "i">> :> <<"0", "4", "0", "b", "0", "4", "e", "4">>)
  @@ (<<"k", "o">> :> <<"0", "4", "1", "2", "0", "3", "b", "5">>)
  @@ (<<"e", "s">> :> <<"0", "4", "0", "a", "0", "4", "e", "4">>)
  @@ (<<"b", "g">> :> <<"0", "4", "0", "2", "0", "4", "e", "3">>)
  @@ (<<"f", "i", "l">> :> <<"0", "4", "6", "4", "0", "4", "e", "4">>)
  @@ (<<"f", "r">> :> <<"0", "4", "0", "c", "0", "4", "e", "4">>)
  @@ (<<"l", "v">> :> <<"0", "4", "2", "6", "0", "4", "e", "9">>)
  @@ (<<"s", "v">> :> <<"0", "4", "1", "d", "0", "4", "e", "4">>)
  @@ (<<"c", "a">> :> <<"0", "4", "0", "3", "0", "4", "e", "4">>)
  @@ (<<"d", "e">> :> <<"0", "4", "0", "7", "0", "4", "e", "4">>)
  @@ (<<"l", "t">> :> <<"0", "4", "2", "7", "0", "4", "e", "9">>)
  @@ (<<"t", "l">> :> <<"0", "c", "0", "0", "0", "4", "b", "0">>)
  @@ (<<"z", "h", "-", "C", "N">> :> <<"0", "8", "0", "4", "0", "3", "a", "8">>)
  @@ (<<"z", "h", "-", "T", "W">> :> <<"0", "4", "0", "4", "0", "3", "b", "6">>)
  @@ (<<"z", "h", "-", "H", "K">> :> <<"0", "c", "0", "4", "0", "3", "b", "6">>)
  @@ (<<"e", "l">> :> <<"0", "4", "0", "8", "0", "4", "e", "5">>)
  @@ (<<"n", "o">> :> <<"0", "4", "1", "4", "0", "4", "e", "4">>)
  @@ (<<"t", "h">> :> <<"0", "4", "1", "e", "0", "3", "6", "a">>)
  @@ (<<"h", "e">> :> <<"0", "4", "0", "d", "0", "4", "e", "7">>)
  @@ (<<"i", "w">> :> <<"0", "4", "0", "d", "0", "4", "e", "7">>)
  @@ (<<"p", "l">> :> <<"0", "4", "1", "5", "0", "4", "e", "2">>)
  @@ (<<"t", "r">> :> <<"0", "4", "1", "f", "0", "4", "e", "6">>)
  @@ (<<"h", "r">> :> <<"0", "4", "1", "a", "0", "4", "e", "4">>)
  @@ (<<"h", "i">> :> <<"0", "4", "3", "9", "0", "4", "b", "0">>)
  @@ (<<"p", "t", "-", "P", "T">> :> <<"0", "8", "1", "6", "0", "4", "e", "4">>)
  @@ (<<"p", "t", "-", "B", "R">> :> <<"0", "4", "1", "6", "0", "4", "e", "4">>)
  @@ (<<"u", "k">> :> <<"0", "4", "2", "2", "0", "4", "e", "3">>)
  @@ (<<"c", "s">> :> <<"0", "4", "0", "5", "0", "4", "e", "2">>)
  @@ (<<"h", "u">> :> <<"0", "4", "0", "e", "0", "4", "e", "2">>)
  @@ (<<"r", "o">> :> <<"0", "4", "1", "8", "0", "4", "e", "2">>)
  @@ (<<"u", "r">> :> <<"0", "4", "2", "0", "0", "4", "b", "0">>)
  @@ (<<"d", "a">> :> <<"0", "4", "0", "6", "0", "4", "e", "4">>)
  @@ (<<"i", "s">> :> <<"0", "4", "0", "f", "0", "4", "e", "4">>)
  @@ (<<"r", "u">> :> <<"0", "4", "1", "9", "0", "4", "e", "3">>)
  @@ (<<"v", "i">> :> <<"0", "4", "2", "a", "0", "4", "e", "a">>)
  @@ (<<"n", "l">> :> <<"0", "4", "1", "3", "0", "4", "e", "4">>)
  @@ (<<"i", "d">> :> <<"0", "4", "2", "1", "0", "4", "e", "4">>)
  @@ (<<"s", "r">> :> <<"0", "8", "1", "a", "0", "4", "e", "2">>)
  @@ (<<"e", "n", "-", "G", "B">> :> <<"0", "8", "0", "9", "0", "4", "0", "e">>)
  @@ (<<"i", "t">> :> <<"0", "4", "1", "0", "0", "4", "e", "4">>)
  @@ (<<"s", "k">> :> <<"0", "4", "1", "b", "0", "4", "e", "2">>)
  @@ (<<"e", "t">> :> <<"0", "4", "2", "5", "0", "4", "e", "9">>)
  @@ (<<"j", "a">> :> <<"0", "4", "1", "1", "0", "3", "a", "4">>)
  @@ (<<"s", "l">> :> <<"0", "4", "2", "4", "0", "4", "e", "2">>)
  @@ (<<"e", "n">> :> <<"0", "4", "0", "9", "0", "4", "b", "0">>)
  @@ (<<"e", "s", "-", "4", "1", "9">> :> <<"0", "8", "0", "a", "0", "4", "e", "4">>)
  @@ (<<"b", "n">> :> <<"0", "4", "4", "5", "0", "4", "b", "0">>)
  @@ (<<"f", "a">> :> <<"0", "4", "2", "9", "0", "4", "e", "8">>)
  @@ (<<"g", "u">> :> <<"0", "4", "4", "7", "0", "4", "b", "0">>)
  @@ (<<"k", "n">> :> <<"0", "4", "4", "b", "0", "4", "b", "0">>)
  @@ (<<"m", "s">> :> <<"0", "4", "3", "e", "0", "4", "e", "4">>)
  @@ (<<"m", "l">> :> <<"0", "4", "4", "c", "0", "4", "b", "0">>)
  @@ (<<"m", "r">> :> <<"0", "4", "4", "e", "0", "4", "b", "0">>)
  @@ (<<"o", "r">> :> <<"0", "4", "4", "8", "0", "4", "b", "0">>)
  @@ (<<"t", "a">> :> <<"0", "4", "4", "9", "0", "4", "b", "0">>)
  @@ (<<"t", "e">> :> <<"0", "4", "4", "a", "0", "4", "b", "0">>)
  @@ (<<"a", "m">> :> <<"0", "4", "5", "e", "0", "4", "b", "0">>)
  @@ (<<"s", "w">> :> <<"0", "4", "4", "1", "0", "4", "e", "4">>)
  @@ (<<"a", "f">> :> <<"0", "4", "3", "6", "0", "4", "e", "4">>)
  @@ (<<"e", "u">> :> <<"0", "4", "2", "d", "0", "4", "e", "4">>)
  @@ (<<"f", "r", "-", "C", "A">> :> <<"0", "c", "0", "c", "0", "4", "e", "4">>)
  @@ (<<"g", "l">> :> <<"0", "4", "5", "6", "0", "4", "e", "4">>)
  @@ (<<"z", "u">> :> <<"0", "4", "3", "5", "0", "4", "b", "0">>)
  @@ (<<"f", "a", "k", "e", "-", "b", "i", "d", "i">> :> <<"0", "4", "0", "d", "0", "4", "e", "7">>)

\* _LANGUAGE_DIRECTIVE_PAIR : language code -> LANGUAGE directive
LANGUAGE_DIRECTIVE_PAIR ==
  (<<"n", "e", "u", "t", "r", "a", "l">> :> "LANG_NEUTRAL, SUBLANG_NEUTRAL")
  @@ (<<"u", "s", "e", "r", "d", "e", "f", "a", "u", "l", "t">> :> "LANG_NEUTRAL, SUBLANG_DEFAULT")
  @@ (<<"a", "r">> :> "LANG_ARABIC, SUBLANG_DEFAULT")
  @@ (<<"f", "i">> :> "LANG_FINNISH, SUBLANG_DEFAULT")
  @@ (<<"k", "o">> :> "LANG_KOREAN, SUBLANG_KOREAN")
  @@ (<<"e", "s">> :> "LANG_SPANISH, SUBLANG_SPANISH_MODERN")
  @@ (<<"b", "g">> :> "LANG_BULGARIAN, SUBLANG_DEFAULT")
  @@ (<<"f", "i", "l">> :> "100, SUBLANG_DEFAULT")
  @@ (<<"f", "r">> :> "LANG_FRENCH, SUBLANG_FRENCH")
  @@ (<<"l", "v">> :> "LANG_LATVIAN, SUBLANG_DEFAULT")
  @@ (<<"s", "v">> :> "LANG_SWEDISH, SUBLANG_SWEDISH")
  @@ (<<"c", "a">> :> "LANG_CATALAN, SUBLANG_DEFAULT")
  @@ (<<"d", "e">> :> "LANG_GERMAN, SUBLANG_GERMAN")
  @@ (<<"l", "t">> :> "LANG_LITHUANIAN, SUBLANG_LITHUANIAN")
  @@ (<<"t", "l">> :> "LANG_NEUTRAL, SUBLANG_DEFAULT")
  @@ (<<"z", "h", "-", "C", "N">> :> "LANG_CHINESE, SUBLANG_CHINESE_SIMPLIFIED")
  @@ (<<"z", "h", "-", "T", "W">> :> "LANG_CHINESE, SUBLANG_CHINESE_TRADITIONAL")
  @@ (<<"z", "h", "-", "H", "K">> :> "LANG_CHINESE, SUBLANG_CHINESE_HONGKONG")
  @@ (<<"e", "l">> :> "LANG_GREEK, SUBLANG_DEFAULT")
  @@ (<<"n", "o">> :> "LANG_NORWEGIAN, SUBLANG_DEFAULT")
  @@ (<<"t", "h">> :> "LANG_THAI, SUBLANG_DEFAULT")
  @@ (<<"h", "e">> :> "LANG_HEBREW, SUBLANG_DEFAULT")
  @@ (<<"i", "w">> :> "LANG_HEBREW, SUBLANG_DEFAULT")
  @@ (<<"p", "l">> :> "LANG_POLISH, SUBLANG_DEFAULT")
  @@ (<<"t", "r">> :> "LANG_TURKISH, SUBLANG_DEFAULT")
  @@ (<<"h", "r">> :> "LANG_CROATIAN, SUBLANG_DEFAULT")
  @@ (<<"h", "i">> :> "LANG_HINDI, SUBLANG_DEFAULT")
  @@ (<<"p", "t", "-", "P", "T">> :> "LANG_PORTUGUESE, SUBLANG_PORTUGUESE")
  @@ (<<"p", "t", "-", "B", "R">> :> "LANG_PORTUGUESE, SUBLANG_DEFAULT")
  @@ (<<"u", "k">> :> "LANG_UKRAINIAN, SUBLANG_DEFAULT")
  @@ (<<"c", "s">> :> "LANG_CZECH, SUBLANG_DEFAULT")
  @@ (<<"h", "u">> :> "LANG_HUNGARIAN, SUBLANG_DEFAULT")
  @@ (<<"r", "o">> :> "LANG_ROMANIAN, SUBLANG_DEFAULT")
  @@ (<<"u", "r">> :> "LANG_URDU, SUBLANG_DEFAULT")
  @@ (<<"d", "a">> :> "LANG_DANISH, SUBLANG_DEFAULT")
  @@ (<<"i", "s">> :> "LANG_ICELANDIC, SUBLANG_DEFAULT")
  @@ (<<"r", "u">> :> "LANG_RUSSIAN, SUBLANG_DEFAULT")
  @@ (<<"v", "i">> :> "LANG_VIETNAMESE, SUBLANG_DEFAULT")
  @@ (<<"n", "l">> :> "LANG_DUTCH, SUBLANG_DEFAULT")
  @@ (<<"i", "d">> :> "LANG_INDONESIAN, SUBLANG_DEFAULT")
  @@ (<<"s", "r">> :> "LANG_SERBIAN, SUBLANG_SERBIAN_CYRILLIC")
  @@ (<<"e", "n", "-", "G", "B">> :> "LANG_ENGLISH, SUBLANG_ENGLISH_UK")
  @@ (<<"i", "t">> :> "LANG_ITALIAN, SUBLANG_DEFAULT")
  @@ (<<"s", "k">> :> "LANG_SLOVAK, SUBLANG_DEFAULT")
  @@ (<<"e", "t">> :> "LANG_ESTONIAN, SUBLANG_DEFAULT")
  @@ (<<"j", "a">> :> "LANG_JAPANESE, SUBLANG_DEFAULT")
  @@ (<<"s", "l">> :> "LANG_SLOVENIAN, SUBLANG_DEFAULT")
  @@ (<<"e", "n">> :> "LANG_ENGLISH, SUBLANG_ENGLISH_US")
  @@ (<<"e", "s", "-", "4", "1", "9">> :> "LANG_SPANISH, SUBLANG_SPANISH_MEXICAN")
  @@ (<<"b", "n">> :> "LANG_BENGALI, SUBLANG_DEFAULT")
  @@ (<<"f", "a">> :> "LANG_PERSIAN, SUBLANG_DEFAULT")
  @@ (<<"g", "u">> :> "LANG_GUJARATI, SUBLANG_DEFAULT")
  @@ (<<"k", "n">> :> "LANG_KANNADA, SUBLANG_DEFAULT")
  @@ (<<"m", "s">> :> "LANG_MALAY, SUBLANG_DEFAULT")
  @@ (<<"m", "l">> :> "LANG_MALAYALAM, SUBLANG_DEFAULT")
  @@ (<<"m", "r">> :> "LANG_MARATHI, SUBLANG_DEFAULT")
  @@ (<<"o", "r">> :> "LANG_ORIYA, SUBLANG_DEFAULT")
  @@ (<<"t", "a">> :> "LANG_TAMIL, SUBLANG_DEFAULT")
  @@ (<<"t", "e">> :> "LANG_TELUGU, SUBLANG_DEFAULT")
  @@ (<<"a", "m">> :> "LANG_AMHARIC, SUBLANG_DEFAULT")
  @@ (<<"s", "w">> :> "LANG_SWAHILI, SUBLANG_DEFAULT")
  @@ (<<"a", "f">> :> "LANG_AFRIKAANS, SUBLANG_DEFAULT")
  @@ (<<"e", "u">> :> "LANG_BASQUE, SUBLANG_DEFAULT")
  @@ (<<"f", "r", "-", "C", "A">> :> "LANG_FRENCH, SUBLANG_FRENCH_CANADIAN")
  @@ (<<"g", "l">> :> "LANG_GALICIAN, SUBLANG_DEFAULT")
  @@ (<<"z", "u">> :> "LANG_ZULU, SUBLANG_DEFAULT")
  @@ (<<"f", "a", "k", "e", "-", "b", "i", "d", "i">> :> "LANG_HEBREW, SUBLANG_DEFAULT")

\* dict[key] : the value, or KeyError when the key is missing
DictGet(dict, key, missing) ==
  IF key \in DOMAIN dict THEN [status |-> "ok", value |-> dict[key]]
  ELSE [status |-> "KeyError", value |-> missing]

Returned(v) == [status |-> "ok", value |-> v]

GetLangCharsetPair_Unguarded(lang) == DictGet(LANGUAGE_CHARSET_PAIR, lang, <<>>)

GetLangCharsetPair(lang) ==
  IF lang \in DOMAIN LANGUAGE_CHARSET_PAIR
  THEN DictGet(LANGUAGE_CHARSET_PAIR, lang, <<>>)
  ELSE Returned(<<>>)

UnknownLanguage == "unknown language: see tools/grit/format/rc.py"

GetLangDirectivePair(lang) ==
  IF lang \in DOMAIN LANGUAGE_DIRECTIVE_PAIR
  THEN DictGet(LANGUAGE_DIRECTIVE_PAIR, lang, "")
  ELSE Returned(UnknownLanguage)

GetLangIdHex(lang) ==
  IF lang \in DOMAIN LANGUAGE_CHARSET_PAIR
  THEN LET langcharset == LANGUAGE_CHARSET_PAIR[lang]
       IN  Returned(<<"0", "x">> \o SubSeq(langcharset, 1, 4))
  ELSE Returned(<<>>)

HexDigits == <<"0", "1", "2", "3", "4", "5", "6", "7", "8", "9",
               "a", "b", "c", "d", "e", "f">>

IsHexDigit(c) == \E i \in 1..16 : HexDigits[i] = Upper(c) \/ Upper(HexDigits[i]) = Upper(c)

HexDigitValue(c) == (CHOOSE i \in 1..16 : Upper(HexDigits[i]) = Upper(c)) - 1

\* int(s, 16)
RECURSIVE ParseHex(_)
ParseHex(s) ==
  IF s = <<>> THEN 0
  ELSE 16 * ParseHex(SubSeq(s, 1, Len(s) - 1)) + HexDigitValue(s[Len(s)])

\* str(n) for n >= 0
RECURSIVE DecimalStr(_)
DecimalStr(n) ==
  IF n < 10 THEN <<HexDigits[n + 1]>>
  ELSE DecimalStr(n \div 10) \o <<HexDigits[(n % 10) + 1]>>

GetCharsetIdDecimal_Undecoded(lang) ==
  IF lang \in DOMAIN LANGUAGE_CHARSET_PAIR
  THEN Returned(SubSeq(LANGUAGE_CHARSET_PAIR[lang], 5, 8))
  ELSE Returned(<<>>)

GetCharsetIdDecimal(lang) ==
  IF lang \in DOMAIN LANGUAGE_CHARSET_PAIR
  THEN LET langcharset == LANGUAGE_CHARSET_PAIR[lang]
           digits == SubSeq(langcharset, 5, Len(langcharset))
       IN  IF digits # <<>> /\ \A i \in 1..Len(digits) : IsHexDigit(digits[i])
           THEN Returned(DecimalStr(ParseHex(digits)))
           ELSE [status |-> "ValueError", value |-> <<>>]
  ELSE Returned(<<>>)

\* str.find(c) as a 1-based index, 0 when c does not occur
Find(s, c) ==
  IF \E i \in 1..Len(s) : s[i] = c
  THEN CHOOSE i \in 1..Len(s) : s[i] = c /\ \A j \in 1..(i - 1) : s[j] # c
  ELSE 0

\* re.compile('([a-z]{1,2})_([a-z]{1,2})').match(language)
UnifiedPatternMatches(lang) ==
  \E k \in 1..2 :
    /\ Len(lang) >= k + 2
    /\ \A i \in 1..k : IsLower(lang[i])
    /\ lang[k + 1] = "_"
    /\ IsLower(lang[k + 2])

GetUnifiedLangCode(lang) ==
  IF UnifiedPatternMatches(lang)
  THEN LET underscore == Find(lang, "_")
       IN  SubSeq(lang, 1, underscore - 1) \o <<"-">>
             \o UpperStr(SubSeq(lang, underscore + 1, Len(lang)))
  ELSE lang

Placeholders == {"GRITVERLANGCHARSETHEX", "GRITVERLANGID", "GRITVERCHARSETID"}

\* RcSubstitutions(substituter, lang) : the substitutions it adds, or the
\* exception a lookup raised
RcSubstitutions(lang) ==
  LET unified_lang_code == GetUnifiedLangCode(lang)
      pair == GetLangCharsetPair(unified_lang_code)
      id == GetLangIdHex(unified_lang_code)
      charset == GetCharsetIdDecimal(unified_lang_code)
      raised == {r.status : r \in {pair, id, charset}} \ {"ok"}
  IN  [status |-> IF raised = {} THEN "ok" ELSE CHOOSE e \in raised : TRUE,
       value |-> IF raised = {}
                 THEN [ph \in Placeholders |->
                         CASE ph = "GRITVERLANGCHARSETHEX" -> pair.value
                           [] ph = "GRITVERLANGID" -> id.value
                           [] ph = "GRITVERCHARSETID" -> charset.value]
                 ELSE [ph \in Placeholders |-> <<>>]]

\* the language codes a build may pass in
UnknownLangs == {<<>>, <<"x", "x">>, <<"e", "n", "-", "U", "S">>, <<"E", "N">>,
                 <<"e", "n", "_">>, <<"_", "e", "n">>, <<"f", "r", "_", "f", "r">>,
                 <<"a", "_", "b">>, <<"z", "h", "-", "c", "n">>}

WithUnderscore(lang) == [i \in 1..Len(lang) |-> IF lang[i] = "-" THEN "_" ELSE lang[i]]

LowerStr(s) ==
  [i \in 1..Len(s) |->
     IF \E j \in 1..26 : UpperCase[j] = s[i]
     THEN LowerCase[CHOOSE j \in 1..26 : UpperCase[j] = s[i]] ELSE s[i]]

LangInputs ==
  (DOMAIN LANGUAGE_CHARSET_PAIR)
    \cup {WithUnderscore(l) : l \in DOMAIN LANGUAGE_CHARSET_PAIR}
    \cup {LowerStr(WithUnderscore(l)) : l \in DOMAIN LANGUAGE_CHARSET_PAIR}
    \cup UnknownLangs

Lookups == {"GetLangCharsetPair", "GetLangDirectivePair", "GetLangIdHex",
            "GetCharsetIdDecimal", "RcSubstitutions"}

NotCalled == [status |-> "not called"]

LocaleIdle ==
  /\ language = <<>>
  /\ looked = [f \in Lookups |-> NotCalled]

CallGetLangCharsetPair ==
  /\ looked.GetLangCharsetPair = NotCalled
  /\ looked' = [looked EXCEPT !.GetLangCharsetPair = GetLangCharsetPair(language)]
  /\ UNCHANGED <<language, nodeVars, itemVars, walkVars, topVars>>

CallGetLangDirectivePair ==
  /\ looked.GetLangDirectivePair = NotCalled
  /\ looked' = [looked EXCEPT !.GetLangDirectivePair = GetLangDirectivePair(language)]
  /\ UNCHANGED <<language, nodeVars, itemVars, walkVars, topVars>>

CallGetLangIdHex ==
  /\ looked.GetLangIdHex = NotCalled
  /\ looked' = [looked EXCEPT !.GetLangIdHex = GetLangIdHex(language)]
  /\ UNCHANGED <<language, nodeVars, itemVars, walkVars, topVars>>

CallGetCharsetIdDecimal ==
  /\ looked.GetCharsetIdDecimal = NotCalled
  /\ looked' = [looked EXCEPT !.GetCharsetIdDecimal = GetCharsetIdDecimal(language)]
  /\ UNCHANGED <<language, nodeVars, itemVars, walkVars, topVars>>

CallRcSubstitutions ==
  /\ looked.RcSubstitutions = NotCalled
  /\ looked' = [looked EXCEPT !.RcSubstitutions = RcSubstitutions(language)]
  /\ UNCHANGED <<language, nodeVars, itemVars, walkVars, topVars>>

-----------------------------------------------------------------------------
(* The Substituter of a pass *)

\* the token a placeholder name is written as in text, one element of a text
Token(ph) ==
  CASE ph = "GRITVERLANGCHARSETHEX" -> "[GRITVERLANGCHARSETHEX]"
    [] ph = "GRITVERLANGID" -> "[GRITVERLANGID]"
    [] ph = "GRITVERCHARSETID" -> "[GRITVERCHARSETID]"

IsToken(c) == \E ph \in Placeholders : c = Token(ph)

PlaceholderOf(c) == CHOOSE ph \in Placeholders : c = Token(ph)

\* util.Substituter.Substitute(text) with the substitutions subs
RECURSIVE Substitute(_, _)
Substitute(subs, text) ==
  IF text = <<>> THEN <<>>
  ELSE (IF IsToken(Head(text)) THEN subs[PlaceholderOf(Head(text))] ELSE <<Head(text)>>)
         \o Substitute(subs, Tail(text))

NoSubstituter == [present |-> FALSE, subs |-> [ph \in Placeholders |-> <<>>]]

\* the substituter a build attaches to the root for a pass in language lang
SubstituterFor(lang) == [present |-> TRUE, subs |-> RcSubstitutions(lang).value]

ApplySubstituter_Unchecked(substituter, text) == Substitute(substituter.subs, text)

\* substituter = getattr(item.GetRoot(), 'substituter', None)
\* if substituter: text = substituter.Substitute(text)
ApplySubstituter(substituter, text) ==
  IF substituter.present THEN Substitute(substituter.subs, text) ELSE text

-----------------------------------------------------------------------------
(* The Message and RcSection formatters *)

Quote == "\""
CR == "\r"
LF == "\n"

\* util.LINEBREAKS ('\r\n|\n|\r'): the length of its match at the head of s
LineBreakAt(s) ==
  IF s = <<>> THEN 0
  ELSE IF Len(s) >= 2 /\ s[1] = CR /\ s[2] = LF THEN 2
  ELSE IF s[1] = LF \/ s[1] = CR THEN 1
  ELSE 0

EscapeQuotes_Missing(message) == message

\* message.replace('"', '""')
EscapeQuotes(message) == Replace(message, Quote, <<Quote, Quote>>)

EscapeLinebreaks_Missing(message) == message

\* util.LINEBREAKS.sub(r'\\n', message)
RECURSIVE EscapeLinebreaks(_)
EscapeLinebreaks(message) ==
  IF message = <<>> THEN <<>>
  ELSE LET n == LineBreakAt(message) IN
       IF n > 0
       THEN <<BackSlash, "n">> \o EscapeLinebreaks(SubSeq(message, n + 1, Len(message)))
       ELSE <<Head(message)>> \o EscapeLinebreaks(Tail(message))

\* '  %-15s "%s"\n' % (name_attr, message)
MessageLine(name_attr, message) ==
  <<" ", " ">> \o LJust(name_attr, 15) \o <<" ", Quote>> \o message \o <<Quote, LF>>

\* Message.Format(item, lang, output_dir)
MessageText(it, substituter) ==
  LET message == it.ws_at_start \o it.text \o it.ws_at_end
  IN  MessageLine(it.name,
        ApplySubstituter(substituter, EscapeLinebreaks(EscapeQuotes(message))))

IsExcludedFromRc_Never(it) == FALSE

\* item.IsExcludedFromRc()
IsExcludedFromRc(it) == it.excluded

\* RcSection.Format(item, lang, output_dir)
RcSectionText(it, substituter) ==
  IF IsExcludedFromRc(it) THEN <<>>
  ELSE LET text == it.text \o <<LF, LF>>
       IN  IF it.expand THEN ApplySubstituter(substituter, text) ELSE text

TextChars == {Quote, CR, LF, BackSlash, "a", "n", Token("GRITVERLANGID")}

RECURSIVE TextsUpTo(_)
TextsUpTo(n) ==
  IF n = 0 THEN {<<>>}
  ELSE LET shorter == TextsUpTo(n - 1)
       IN  shorter \cup {Append(t, c) : t \in {u \in shorter : Len(u) = n - 1},
                                        c \in TextChars}

ShortName == <<"I", "D">>
LongName == [i \in 1..16 |-> "I"]

\* a message node: its textual id, the whitespace around and the translation
\* of its text, its sub_variable attribute
Messages ==
  [kind : {"message"}, name : {ShortName, LongName},
   ws_at_start : {<<>>, <<" ">>}, text : TextsUpTo(MaxTextLen),
   ws_at_end : {<<>>, <<LF>>}, expand : BOOLEAN, excluded : {FALSE}]

\* a structure node: the text of its gatherer, ExpandVariables() and
\* IsExcludedFromRc()
Structures ==
  [kind : {"structure"}, name : {ShortName},
   ws_at_start : {<<>>}, text : TextsUpTo(MaxTextLen),
   ws_at_end : {<<>>}, expand : BOOLEAN, excluded : BOOLEAN]

Substituters == {NoSubstituter, SubstituterFor(<<"e", "n">>), SubstituterFor(<<"x", "x">>)}

NotFormatted == [status |-> "none", text |-> <<>>]

\* the node's formatter is not an RcInclude
NoRcInclude == [type_ |-> <<>>, filenameWithoutPath |-> FALSE,
                relative_path_ |-> FALSE, flatten_html |-> FALSE]

ItemIdle ==
  /\ item = [kind |-> "none", name |-> <<>>, ws_at_start |-> <<>>, text |-> <<>>,
             ws_at_end |-> <<>>, expand |-> FALSE, excluded |-> FALSE]
  /\ root = [substituter |-> NoSubstituter]
  /\ formatted = NotFormatted
  /\ rcinclude = NoRcInclude

MessageFormat ==
  /\ item.kind = "message"
  /\ formatted = NotFormatted
  /\ formatted' = [status |-> "ok", text |-> MessageText(item, root.substituter)]
  /\ UNCHANGED <<item, root, rcinclude, nodeVars, localeVars, walkVars, topVars>>

RcSectionFormat ==
  /\ item.kind = "structure"
  /\ rcinclude = NoRcInclude
  /\ formatted = NotFormatted
  /\ formatted' = [status |-> "ok", text |-> RcSectionText(item, root.substituter)]
  /\ UNCHANGED <<item, root, rcinclude, nodeVars, localeVars, walkVars, topVars>>

-----------------------------------------------------------------------------
(* Formatter dispatch and the tree walk of an output pass *)

RcKinds == {"rc_all", "rc_translateable", "rc_nontranslateable"}

OutputKinds == {"rc_all", "rc_header", "data_package"}

NoFormatter == "None"

\* IncludeNode.ItemFormatter(t)
IncludeItemFormatter(t, satisfiesOutputCondition) ==
  IF t = "rc_header" THEN "rc_header.Item"
  ELSE IF t \in RcKinds /\ satisfiesOutputCondition THEN "RcInclude"
  ELSE IF t = "resource_map_source" THEN "resource_map.SourceInclude"
  ELSE IF t = "resource_file_map_source" THEN "resource_map.SourceFileInclude"
  ELSE NoFormatter

\* node.ItemFormatter(t) for the node kinds of a tree
ItemFormatter(node, t) ==
  CASE node.kind = "include" -> IncludeItemFormatter(t, node.cond)
    [] node.kind = "messages" -> IF t \in RcKinds THEN "StringTable" ELSE NoFormatter
    [] node.kind = "message" -> IF t \in RcKinds THEN "Message"
                                ELSE IF t = "rc_header" THEN "rc_header.Item"
                                ELSE NoFormatter
    [] OTHER -> NoFormatter

StringTableFormat == "STRINGTABLE\nBEGIN\n"

StringTableFormatEnd_Empty == ""

StringTableFormatEnd == "END\n\n"

\* formatter.Format(node, lang, output_dir), a leaf's line named by its formatter
FormatOf(formatter) ==
  IF formatter = "StringTable" THEN StringTableFormat ELSE formatter

\* formatter.FormatEnd(node, lang, output_dir)
FormatEndOf(formatter) ==
  IF formatter = "StringTable" THEN StringTableFormatEnd ELSE ""

Chunk(at, part, text) == [at |-> at, part |-> part, text |-> text]

\* if formatter: outfile.write(text)
Write(out, at, part, formatter, text) ==
  IF formatter = NoFormatter \/ text = "" THEN out
  ELSE Append(out, Chunk(at, part, text))

RECURSIVE SeqsUpTo(_, _)
SeqsUpTo(S, n) ==
  IF n = 0 THEN {<<>>}
  ELSE LET shorter == SeqsUpTo(S, n - 1)
       IN  shorter \cup {Append(q, x) : q \in {u \in shorter : Len(u) = n - 1}, x \in S}

MessageLeaves == {[kind |-> "message", cond |-> TRUE]}

IncludeLeaves == [kind : {"include"}, cond : BOOLEAN]

\* the children of the root: string tables of messages, include groups, includes
TopNodes ==
  [kind : {"messages"}, cond : {TRUE}, kids : SeqsUpTo(MessageLeaves, MaxKids)]
    \cup [kind : {"includes"}, cond : {TRUE}, kids : SeqsUpTo(IncludeLeaves, MaxKids)]
    \cup [kind : {"include"}, cond : BOOLEAN, kids : {<<>>}]

WalkIdle ==
  /\ tree = <<>>
  /\ walk = [t |-> "none", i |-> 0, j |-> 0, phase |-> "done"]
  /\ outfile = <<>>

\* ProcessNode enters the i-th child of the root and writes its Format
WalkEnter ==
  /\ walk.phase = "enter"
  /\ walk.i <= Len(tree)
  /\ LET formatter == ItemFormatter(tree[walk.i], walk.t) IN
     outfile' = Write(outfile, <<walk.i>>, "begin", formatter, FormatOf(formatter))
  /\ walk' = [walk EXCEPT !.phase = "children", !.j = 1]
  /\ UNCHANGED <<tree, nodeVars, localeVars, itemVars, topVars>>

\* ProcessNode visits the next child of the node: Format, no children, FormatEnd
WalkChild ==
  /\ walk.phase = "children"
  /\ walk.j <= Len(tree[walk.i].kids)
  /\ LET formatter == ItemFormatter(tree[walk.i].kids[walk.j], walk.t) IN
     outfile' = Write(Write(outfile, <<walk.i, walk.j>>, "begin", formatter,
                            FormatOf(formatter)),
                      <<walk.i, walk.j>>, "end", formatter, FormatEndOf(formatter))
  /\ walk' = [walk EXCEPT !.j = walk.j + 1]
  /\ UNCHANGED <<tree, nodeVars, localeVars, itemVars, topVars>>

\* ProcessNode has visited all children of the node and writes its FormatEnd
WalkLeave ==
  /\ walk.phase = "children"
  /\ walk.j > Len(tree[walk.i].kids)
  /\ LET formatter == ItemFormatter(tree[walk.i], walk.t) IN
     outfile' = Write(outfile, <<walk.i>>, "end", formatter, FormatEndOf(formatter))
  /\ walk' = [walk EXCEPT !.phase = IF walk.i = Len(tree) THEN "done" ELSE "enter",
                          !.i = walk.i + 1, !.j = 0]
  /\ UNCHANGED <<tree, nodeVars, localeVars, itemVars, topVars>>

-----------------------------------------------------------------------------
(* TopLevel.Format : the preamble of an RC file *)

MaxOutputs == 2

ResourceH == <<"r", "e", "s", "o", "u", "r", "c", "e", ".", "h">>

NeutralDirective == "LANGUAGE LANG_NEUTRAL, SUBLANG_NEUTRAL"

PassLangs == {<<"e", "n">>, <<"f", "r">>}

\* os.path.abspath(output.GetOutputFilename()) of the outputs a document names
OutputFilenames(s) == {<<s, "a", s, "h">>, <<s, "s", s, "i", s, "h">>}

\* the <output> nodes of a document
OutputNodes(s) ==
  [type : {"rc_all", "rc_header"}, lang : PassLangs,
   language_section : {"", "neutral", "lang"}, filename : OutputFilenames(s)]

NamesHeader_OfLanguage(output, lang) ==
  output.type = "rc_header" /\ output.lang = lang

\* if output.attrs['type'] == 'rc_header'
NamesHeader(output, lang) == output.type = "rc_header"

OtherLanguage_Never(output, lang) == FALSE

\* if output.attrs['lang'] != lang: continue
OtherLanguage(output, lang) == output.lang # lang

\* the language directive an output of the pass language sets: nothing, the
\* neutral directive or 'LANGUAGE %s' % GetLangDirectivePair(lang)
LanguageDirective(language_section, lang, before) ==
  CASE language_section = "" -> <<>>
    [] language_section = "neutral" -> <<NeutralDirective>>
    [] language_section = "lang" -> <<"LANGUAGE ", GetLangDirectivePair(lang).value>>
    [] OTHER -> before

\* one round of the loop over the outputs
ScanOutput(found, output, lang, output_dir) ==
  LET resource_header ==
        IF NamesHeader(output, lang)
        THEN MakeRelativePath(output_dir, output.filename, sep)
        ELSE found.resource_header
  IN  [resource_header |-> resource_header,
       language_directive |->
         IF OtherLanguage(output, lang) THEN found.language_directive
         ELSE LanguageDirective(output.language_section, lang,
                                found.language_directive)]

RECURSIVE ScanOutputs(_, _, _, _)
ScanOutputs(found, outs, lang, output_dir) ==
  IF outs = <<>> THEN found
  ELSE ScanOutputs(ScanOutput(found, Head(outs), lang, output_dir), Tail(outs),
                   lang, output_dir)

\* the line '#include "%s"' of the preamble
IncludeDirective(resource_header) ==
  <<"#include \"">> \o resource_header \o <<"\"">>

\* the variable parts of the text TopLevel.Format returns
TopLevelText(outs, lang, output_dir) ==
  LET found == ScanOutputs([resource_header |-> ResourceH,
                            language_directive |-> <<>>],
                           outs, lang, output_dir)
  IN  [status |-> "ok",
       include |-> IncludeDirective(Replace(found.resource_header, BackSlash,
                                            <<BackSlash, BackSlash>>)),
       language |-> found.language_directive]

NoPreamble == [status |-> "none", include |-> <<>>, language |-> <<>>]

TopIdle ==
  /\ outputs = <<>>
  /\ pass = [lang |-> <<>>, output_dir |-> <<>>]
  /\ preamble = NoPreamble

TopLevelFormat ==
  /\ preamble = NoPreamble
  /\ preamble' = TopLevelText(outputs, pass.lang, pass.output_dir)
  /\ UNCHANGED <<outputs, pass, nodeVars, localeVars, itemVars, walkVars>>

-----------------------------------------------------------------------------
(* The include node's environment *)

NoneData == "None"        \* Python None in a bytes-valued slot
NonePath == <<>>          \* Python None in a path-valued slot (a path is never empty)

Falsy(d) == d = NoneData \/ d = ""

NodeName == <<"N">>
NodeType == <<"t">>
NodeId   == 7

DirNames == {"a", "s"}

OutputDirs(s) == {<<s, d>> : d \in DirNames}

\* self.ToRealPath(self.GetInputPath())
ToRealPath(s) == <<s, "s", s, "f">>

\* grit.format.html_inline.InlineToString(filename, self, allow_external_script)
InlineToString(src, allow_external_script) ==
  IF src = "" THEN ""
  ELSE IF allow_external_script THEN "flat+ext" ELSE "flat"

\* util.ReadFile(filename, util.BINARY)
ReadFile(src) == src

\* the destination Process computes for an output directory
FlatFilename(output_dir) ==
  PathJoin(output_dir, attrs.name \o <<"_">> \o BaseName(ToRealPath(sep), sep), sep)

NoCall == [op |-> "none", dir |-> <<>>, status |-> "ok", name |-> <<>>,
           data |-> NoneData, id |-> 0, lastBefore |-> NonePath, wrote |-> FALSE]

\* what a call did: its status ("ok" or the exception it raised), the value it
\* returned (name: a filename or an output line, data and id: a data pack
\* pair), the last-flattened path it found and whether it completed a write
Result(op, dir, status, name, data, id, wrote) ==
  [op |-> op, dir |-> dir, status |-> status, name |-> name, data |-> data,
   id |-> id, lastBefore |-> last_flat_filename, wrote |-> wrote]

-----------------------------------------------------------------------------
(* IncludeNode.__init__ and the attributes the parser set *)

BoolStr == {"true", "false"}

\* DefaultAttributes() for the attributes the document may leave out
DefaultAttributes == [filenameonly |-> "false", relativepath |-> "false",
                      flattenhtml |-> "false", allowexternalscript |-> "false"]

InitNode(filenameonlys, relativepaths) ==
  /\ sep \in {"/", BackSlash}
  /\ attrs \in [name : {NodeName}, type : {NodeType},
                flattenhtml : BoolStr, allowexternalscript : BoolStr,
                filenameonly : filenameonlys, relativepath : relativepaths]
  /\ source \in {"", "raw"}
  /\ tids \in {{}, {NodeName}}
  /\ flattened_data = NoneData
  /\ last_flat_filename = NonePath
  /\ fs = [p \in {PathJoin(d, NodeName \o <<"_">> \o BaseName(ToRealPath(sep), sep), sep)
                    : d \in OutputDirs(sep)} |-> "absent"]
  /\ writeLog = <<>>
  /\ inlineLog = <<>>
  /\ ret = NoCall
  /\ calls = 0

NodeIdle ==
  /\ sep = "/"
  /\ attrs = [name |-> NodeName, type |-> NodeType,
              flattenhtml |-> DefaultAttributes.flattenhtml,
              allowexternalscript |-> DefaultAttributes.allowexternalscript,
              filenameonly |-> DefaultAttributes.filenameonly,
              relativepath |-> DefaultAttributes.relativepath]
  /\ source = ""
  /\ tids = {}
  /\ flattened_data = NoneData
  /\ last_flat_filename = NonePath
  /\ fs = <<>>
  /\ writeLog = <<>>
  /\ inlineLog = <<>>
  /\ ret = NoCall
  /\ calls = 0

Init ==
  /\ InitNode({DefaultAttributes.filenameonly}, {DefaultAttributes.relativepath})
  /\ LocaleIdle
  /\ ItemIdle
  /\ WalkIdle
  /\ TopIdle

-----------------------------------------------------------------------------
(* IncludeNode._GetFlattenedData : the bytes cache *)

\* does a call of _GetFlattenedData invoke the inliner
Computes(data) == Falsy(data)

\* the cache after a call whose inliner call (if any) returned
FlattenedDataAfter(data, src, allow_external_script) ==
  IF Computes(data) THEN InlineToString(src, allow_external_script) ELSE data

InlineLogAfter(data, allow_external_script, returned) ==
  IF Computes(data)
  THEN Append(inlineLog, [allow |-> allow_external_script, returned |-> returned])
  ELSE inlineLog

Advance(r) ==
  /\ calls < MaxCalls
  /\ calls' = calls + 1
  /\ ret' = r

GetFlattenedData(allow_external_script, outcome) ==
  /\ outcome \in {"ok", "inlineFail"}
  /\ outcome = "inlineFail" => Computes(flattened_data)
  /\ inlineLog' = InlineLogAfter(flattened_data, allow_external_script,
                                  outcome = "ok")
  /\ IF outcome = "inlineFail"
     THEN /\ UNCHANGED flattened_data
          /\ Advance(Result("_GetFlattenedData", <<>>, "IOError", <<>>, NoneData, 0,
                            FALSE))
     ELSE /\ flattened_data' =
               FlattenedDataAfter(flattened_data, source, allow_external_script)
          /\ Advance(Result("_GetFlattenedData", <<>>, "ok", <<>>, flattened_data', 0,
                            FALSE))
  /\ UNCHANGED <<attrs, sep, source, tids, last_flat_filename, fs, writeLog, localeVars, itemVars, walkVars, topVars>>

-----------------------------------------------------------------------------
(* IncludeNode.GetDataPackPair *)

HasId_Always(id_map, tid) == TRUE

\* does id_map[self.GetTextualIds()[0]] find an entry
HasId(id_map, tid) == tid \in id_map

GetDataPackPair(lang, encoding, outcome) ==
  /\ outcome \in {"ok", "inlineFail", "readFail"}
  /\ IF ~HasId(tids, attrs.name)
     THEN \* id_map[...] raises KeyError before anything else runs
          /\ outcome = "ok"
          /\ Advance(Result("GetDataPackPair", <<>>, "KeyError", <<>>, NoneData, 0,
                            FALSE))
          /\ UNCHANGED <<flattened_data, inlineLog>>
     ELSE IF attrs.flattenhtml = "true"
     THEN LET allow_external_script == attrs.allowexternalscript = "true" IN
          /\ outcome \in {"ok", "inlineFail"}
          /\ outcome = "inlineFail" => Computes(flattened_data)
          /\ inlineLog' = InlineLogAfter(flattened_data, allow_external_script,
                                          outcome = "ok")
          /\ IF outcome = "inlineFail"
             THEN /\ UNCHANGED flattened_data
                  /\ Advance(Result("GetDataPackPair", <<>>, "IOError", <<>>,
                                    NoneData, 0, FALSE))
             ELSE /\ flattened_data' =
                       FlattenedDataAfter(flattened_data, source, allow_external_script)
                  /\ Advance(Result("GetDataPackPair", <<>>, "ok", <<>>,
                                    flattened_data', NodeId, FALSE))
     ELSE /\ outcome \in {"ok", "readFail"}
          /\ Advance(Result("GetDataPackPair", <<>>,
                            IF outcome = "ok" THEN "ok" ELSE "IOError", <<>>,
                            IF outcome = "ok" THEN ReadFile(source) ELSE NoneData,
                            IF outcome = "ok" THEN NodeId ELSE 0, FALSE))
          /\ UNCHANGED <<flattened_data, inlineLog>>
  /\ UNCHANGED <<attrs, sep, source, tids, last_flat_filename, fs, writeLog, localeVars, itemVars, walkVars, topVars>>

-----------------------------------------------------------------------------
(* IncludeNode.Process : flatten to a file *)

AlreadyFlattened_Never(last, flat_filename) == FALSE

\* the early return of Process
AlreadyFlattened(last, flat_filename) == last = flat_filename

LastAfterWrite_Unrecorded(last, flat_filename) == last

\* self._last_flat_filename = flat_filename
LastAfterWrite(last, flat_filename) == flat_filename

\* what a failed outfile.write can leave in the file opened with 'wb'
PartialContents(data) == IF data = "" THEN {""} ELSE {"", "partial"}

\* the state Process leaves behind, and what it returns (r.status is "ok" or the
\* exception raised, r.name the returned filename, NonePath for None)
ProcessStep(output_dir, outcome, r) ==
  LET filename == ToRealPath(sep)
      flat_filename == FlatFilename(output_dir)
  IN
  /\ outcome \in {"ok", "openFail", "inlineFail", "writeFail"}
  /\ IF AlreadyFlattened(last_flat_filename, flat_filename)
     THEN /\ outcome = "ok"
          /\ r = [status |-> "ok", name |-> NonePath, wrote |-> FALSE]
          /\ UNCHANGED <<flattened_data, last_flat_filename, fs, writeLog, inlineLog>>
     ELSE IF outcome = "openFail"
     THEN /\ r = [status |-> "IOError", name |-> NonePath, wrote |-> FALSE]
          /\ UNCHANGED <<flattened_data, last_flat_filename, fs, writeLog, inlineLog>>
     ELSE \* open(flat_filename, 'wb') has created or truncated the file
          /\ inlineLog' = InlineLogAfter(flattened_data, FALSE,
                                          outcome # "inlineFail")
          /\ IF outcome = "inlineFail"
             THEN /\ Computes(flattened_data)
                  /\ fs' = [fs EXCEPT ![flat_filename] = ""]
                  /\ r = [status |-> "IOError", name |-> NonePath, wrote |-> FALSE]
                  /\ UNCHANGED <<flattened_data, last_flat_filename, writeLog>>
             ELSE /\ flattened_data' = FlattenedDataAfter(flattened_data, source, FALSE)
                  /\ IF outcome = "writeFail"
                     THEN /\ \E c \in PartialContents(flattened_data') :
                               fs' = [fs EXCEPT ![flat_filename] = c]
                          /\ r = [status |-> "IOError", name |-> NonePath,
                                  wrote |-> FALSE]
                          /\ UNCHANGED <<last_flat_filename, writeLog>>
                     ELSE /\ fs' = [fs EXCEPT ![flat_filename] = flattened_data']
                          /\ writeLog' = Append(writeLog, flat_filename)
                          /\ last_flat_filename' =
                               LastAfterWrite(last_flat_filename, flat_filename)
                          /\ r = [status |-> "ok", name |-> BaseName(flat_filename, sep),
                                  wrote |-> TRUE]

ProcessResults ==
  [status : {"ok", "IOError"},
   name : {NonePath, NodeName \o <<"_">> \o BaseName(ToRealPath(sep), sep)},
   wrote : BOOLEAN]

Process(output_dir, outcome) ==
  /\ \E r \in ProcessResults :
       /\ ProcessStep(output_dir, outcome, r)
       /\ Advance(Result("Process", output_dir, r.status, r.name, NoneData, 0,
                         r.wrote))
  /\ UNCHANGED <<attrs, sep, source, tids, localeVars, itemVars, walkVars, topVars>>

-----------------------------------------------------------------------------
(* IncludeNode.ItemFormatter and RcInclude.Format *)

\* '%-18s %-18s "%s"\n' % (name, type, filename)
IncludeLine(name, type, filename) ==
  LJust(name, 18) \o <<" ">> \o LJust(type, 18) \o <<" ", "\"">> \o filename
    \o <<"\"", "\n">>

\* the path RcInclude.Format names when it does not flatten
PlainFilename(output_dir, filenameWithoutPath, relative_path) ==
  LET filename == ToRealPath(sep) IN
  IF filenameWithoutPath THEN BaseName(filename, sep)
  ELSE IF relative_path THEN MakeRelativePath(output_dir, filename, sep)
  ELSE filename

EscapePath(filename) == Replace(filename, BackSlash, <<BackSlash, BackSlash>>)

RcIncludeFormat(lang, output_dir, outcome) ==
  LET type_ == UpperStr(attrs.type)
      filenameWithoutPath == attrs.filenameonly = "true"
      relative_path_ == attrs.relativepath = "true"
      flatten_html == attrs.flattenhtml = "true"
  IN
  /\ IF flatten_html
     THEN \E r \in ProcessResults :
            /\ ProcessStep(output_dir, outcome, r)
            /\ IF r.status # "ok"
               THEN Advance(Result("Format", output_dir, r.status, <<>>, NoneData, 0,
                                   r.wrote))
               ELSE IF r.name = NonePath
               THEN \* None has no replace()
                    Advance(Result("Format", output_dir, "AttributeError", <<>>,
                                   NoneData, 0, r.wrote))
               ELSE Advance(Result("Format", output_dir, "ok",
                                   IncludeLine(attrs.name, type_, EscapePath(r.name)),
                                   NoneData, 0, r.wrote))
     ELSE /\ outcome = "ok"
          /\ Advance(Result("Format", output_dir, "ok",
                            IncludeLine(attrs.name, type_,
                              EscapePath(PlainFilename(output_dir, filenameWithoutPath,
                                                       relative_path_))),
                            NoneData, 0, FALSE))
          /\ UNCHANGED <<flattened_data, last_flat_filename, fs, writeLog, inlineLog>>
  /\ UNCHANGED <<attrs, sep, source, tids, localeVars, itemVars, walkVars, topVars>>

-----------------------------------------------------------------------------
(* RcInclude.Format of a structure node *)

\* the RcInclude formatters a structure node is handed to
RcIncludes ==
  [type_ : {<<"H", "T", "M", "L">>}, filenameWithoutPath : BOOLEAN,
   relative_path_ : BOOLEAN, flatten_html : BOOLEAN]

\* the structure nodes whose type sends them to RcInclude
IncludedStructures == {it \in Structures : Len(it.text) <= 1}

\* os.path.abspath(item.FileForLanguage(lang, output_dir)) of a structure node
StructureFile(it, lang, output_dir) == ToRealPath(sep)

\* item.Flatten(output_dir) of a structure node: the name of the flattened file
StructureFlatten(it, output_dir) ==
  it.name \o <<"_">> \o BaseName(ToRealPath(sep), sep)

\* the filename of RcInclude.Format before it is escaped
StructureFilename(it, formatter, lang, output_dir) ==
  LET filename == StructureFile(it, lang, output_dir) IN
  IF formatter.flatten_html THEN StructureFlatten(it, output_dir)
  ELSE IF formatter.filenameWithoutPath THEN BaseName(filename, sep)
  ELSE IF formatter.relative_path_ THEN MakeRelativePath(output_dir, filename, sep)
  ELSE filename

\* what RcInclude.Format returns for a structure node
RcIncludeText(it, formatter, lang, output_dir) ==
  LET filename == EscapePath(StructureFilename(it, formatter, lang, output_dir))
  IN  IF IsExcludedFromRc(it) THEN <<>>
      ELSE IncludeLine(it.name, formatter.type_, filename)

RcIncludeStructureFormat(lang, output_dir, outcome) ==
  /\ item.kind = "structure"
  /\ rcinclude # NoRcInclude
  /\ formatted = NotFormatted
  /\ outcome \in {"ok", "readFail", "writeFail"}
  /\ outcome = "writeFail" => rcinclude.flatten_html
  /\ formatted' =
       IF outcome = "ok"
       THEN [status |-> "ok", text |-> RcIncludeText(item, rcinclude, lang, output_dir)]
       ELSE \* FileForLanguage or Flatten raised, before the node's exclusion is tested
            [status |-> "IOError", text |-> <<>>]
  /\ UNCHANGED <<item, root, rcinclude, nodeVars, localeVars, walkVars, topVars>>

-----------------------------------------------------------------------------

Outcomes == {"ok", "openFail", "inlineFail", "writeFail", "readFail"}

Langs == {"en", "fr"}

\* the calls a build makes on one include node, in any order
Next ==
  \/ \E d \in OutputDirs(sep), o \in Outcomes : Process(d, o)
  \/ \E l \in Langs, e \in {"utf-8", "utf-16"}, o \in Outcomes :
       GetDataPackPair(l, e, o)
  \/ \E a \in BOOLEAN, o \in Outcomes : GetFlattenedData(a, o)

Spec == Init /\ [][Next]_vars

\* repeated RC output passes over a tree holding one include node
InitPass ==
  InitNode(BoolStr, BoolStr) /\ LocaleIdle /\ ItemIdle /\ WalkIdle /\ TopIdle

NextPass ==
  \E l \in Langs, d \in OutputDirs(sep), o \in Outcomes : RcIncludeFormat(l, d, o)

SpecPass == InitPass /\ [][NextPass]_vars

\* the locale lookups a pass makes for its language, in any order
InitLocale ==
  /\ language \in LangInputs
  /\ looked = [f \in Lookups |-> NotCalled]
  /\ NodeIdle
  /\ ItemIdle
  /\ WalkIdle
  /\ TopIdle

NextLocale ==
  \/ CallGetLangCharsetPair
  \/ CallGetLangDirectivePair
  \/ CallGetLangIdHex
  \/ CallGetCharsetIdDecimal
  \/ CallRcSubstitutions

SpecLocale == InitLocale /\ [][NextLocale]_vars

\* one message or structure node formatted in a pass
InitItem ==
  /\ \/ item \in Messages \cup Structures /\ rcinclude = NoRcInclude
     \/ item \in IncludedStructures /\ rcinclude \in RcIncludes
  /\ root \in [substituter : Substituters]
  /\ formatted = NotFormatted
  /\ NodeIdle
  /\ LocaleIdle
  /\ WalkIdle
  /\ TopIdle

NextItem ==
  \/ MessageFormat
  \/ RcSectionFormat
  \/ \E l \in Langs, d \in OutputDirs(sep), o \in Outcomes :
       RcIncludeStructureFormat(l, d, o)

SpecItem == InitItem /\ [][NextItem]_vars

\* one output pass over a tree
InitWalk ==
  /\ tree \in SeqsUpTo(TopNodes, MaxTop)
  /\ \E t \in OutputKinds :
       walk = [t |-> t, i |-> 1, j |-> 0,
               phase |-> IF tree = <<>> THEN "done" ELSE "enter"]
  /\ outfile = <<>>
  /\ NodeIdle
  /\ LocaleIdle
  /\ ItemIdle
  /\ TopIdle

NextWalk ==
  \/ WalkEnter
  \/ WalkChild
  \/ WalkLeave

SpecWalk == InitWalk /\ [][NextWalk]_vars

\* the preamble of one output pass
InitTop ==
  /\ sep \in {"/", BackSlash}
  /\ outputs \in SeqsUpTo(OutputNodes(sep), MaxOutputs)
  /\ pass \in [lang : PassLangs, output_dir : OutputDirs(sep)]
  /\ preamble = NoPreamble
  /\ attrs = [name |-> NodeName, type |-> NodeType,
              flattenhtml |-> DefaultAttributes.flattenhtml,
              allowexternalscript |-> DefaultAttributes.allowexternalscript,
              filenameonly |-> DefaultAttributes.filenameonly,
              relativepath |-> DefaultAttributes.relativepath]
  /\ source = "" /\ tids = {} /\ flattened_data = NoneData
  /\ last_flat_filename = NonePath /\ fs = <<>> /\ writeLog = <<>>
  /\ inlineLog = <<>> /\ ret = NoCall /\ calls = 0
  /\ LocaleIdle
  /\ ItemIdle
  /\ WalkIdle

NextTop == TopLevelFormat

SpecTop == InitTop /\ [][NextTop]_vars

-----------------------------------------------------------------------------
(* Properties of the flatten cache *)

\* the filename <node-name>_<source-basename>
FlatBaseName == attrs.name \o <<"_">> \o BaseName(ToRealPath(sep), sep)

\* C1: of two consecutive Process calls with the same destination path, the
\* first of which found another (or no) last-flattened path and returned, the
\* first wrote the destination and the second writes nothing: one write in all.
Thm_C1 ==
  [][ ( /\ ret.op = "Process" /\ ret.status = "ok"
        /\ ret.lastBefore # FlatFilename(ret.dir)
        /\ ret'.op = "Process" /\ ret'.dir = ret.dir )
      => ( /\ ret.wrote
           /\ ret'.status = "ok" /\ ~ret'.wrote
           /\ writeLog' = writeLog /\ fs' = fs ) ]_vars

Witness_C1 ==
  /\ calls = 2
  /\ ret.op = "Process" /\ ret.status = "ok" /\ ~ret.wrote
  /\ ret.lastBefore = FlatFilename(ret.dir)
  /\ writeLog = <<FlatFilename(ret.dir)>>

\* C2: every Process call that returns, a repeat with the identical destination
\* included, returns the filename <node-name>_<source-basename>.
Cex_C2 ==
  (ret.op = "Process" /\ ret.status = "ok") => ret.name = FlatBaseName

\* C3 (as claimed): every distinct destination path is written at most once.
Cex_C3 ==
  \A i, j \in 1..Len(writeLog) : i # j => writeLog[i] # writeLog[j]

\* C3 (amended): a Process call that returns writes its destination exactly
\* when it differs from the path the node last flattened to, which is the
\* destination of the latest completed write; so no destination is written
\* twice in a row, though it is written again after another one (A, B, A).
Thm_C3 ==
  /\ \A i \in 1..(Len(writeLog) - 1) : writeLog[i] # writeLog[i + 1]
  /\ last_flat_filename =
       IF writeLog = <<>> THEN NonePath ELSE writeLog[Len(writeLog)]
  /\ (ret.op = "Process" /\ ret.status = "ok")
       => (ret.wrote <=> ret.lastBefore # FlatFilename(ret.dir))

Witness_C3 ==
  /\ Len(writeLog) = 3
  /\ writeLog[1] = writeLog[3]
  /\ writeLog[2] # writeLog[1]

\* C4: over any sequence of Process, GetDataPackPair and _GetFlattenedData
\* calls the inliner returns bytes at most once for the node.
Cex_C4 ==
  Cardinality({i \in 1..Len(inlineLog) : inlineLog[i].returned}) <= 1

\* C5: a second run of the same output pass on the same node objects, with the
\* same language and output directory, produces the output of the first run.
Cex_C5 ==
  [][ ( /\ ret.op = "Format" /\ ret.status = "ok"
        /\ ret'.op = "Format" /\ ret'.dir = ret.dir )
      => ( ret'.status = "ok" /\ ret'.name = ret.name ) ]_vars

-----------------------------------------------------------------------------
(* Properties of the locale lookups *)

UnknownCode(lang) == lang \notin DOMAIN LANGUAGE_CHARSET_PAIR

LookedUp(f) == looked[f] # NotCalled

\* C10 (as claimed): for a language code that is not a key of the tables, no
\* lookup raises, the three charset lookups return the empty string and
\* GetLangDirectivePair returns the literal string "unknown language".
Cex_C10 ==
  UnknownCode(language) =>
    /\ \A f \in Lookups : LookedUp(f) => looked[f].status = "ok"
    /\ \A f \in {"GetLangCharsetPair", "GetLangIdHex", "GetCharsetIdDecimal"} :
         LookedUp(f) => looked[f].value = <<>>
    /\ LookedUp("GetLangDirectivePair")
         => looked.GetLangDirectivePair.value = "unknown language"

\* C10 (amended): as claimed, except that the fallback GetLangDirectivePair
\* returns is 'unknown language: see tools/grit/format/rc.py'; RcSubstitutions
\* completes, with three empty substitutions when the normalized code is
\* unknown too.
Thm_C10 ==
  /\ UnknownCode(language) =>
       /\ \A f \in Lookups : LookedUp(f) => looked[f].status = "ok"
       /\ \A f \in {"GetLangCharsetPair", "GetLangIdHex", "GetCharsetIdDecimal"} :
            LookedUp(f) => looked[f].value = <<>>
       /\ LookedUp("GetLangDirectivePair")
            => looked.GetLangDirectivePair.value
                 = "unknown language: see tools/grit/format/rc.py"
  /\ (UnknownCode(GetUnifiedLangCode(language)) /\ LookedUp("RcSubstitutions"))
       => /\ looked.RcSubstitutions.status = "ok"
          /\ \A ph \in Placeholders : looked.RcSubstitutions.value[ph] = <<>>

Witness_C10 ==
  /\ UnknownCode(language)
  /\ UnknownCode(GetUnifiedLangCode(language))
  /\ \A f \in Lookups : LookedUp(f)

-----------------------------------------------------------------------------
(* Properties of the Message and RcSection formatters *)

\* the text Message.Format starts from
MessageSource == item.ws_at_start \o item.text \o item.ws_at_end

MessageFormatted == item.kind = "message" /\ formatted.status = "ok"

\* the columns the name takes in the emitted line
NameColumns == IF Len(item.name) > 15 THEN Len(item.name) ELSE 15

\* the emitted line is '  <name left-justified in 15 columns> "<text>"\n'
LineShape(line) ==
  /\ Len(line) >= NameColumns + 6
  /\ line[1] = " " /\ line[2] = " "
  /\ SubSeq(line, 3, 2 + Len(item.name)) = item.name
  /\ \A i \in (3 + Len(item.name))..(2 + NameColumns) : line[i] = " "
  /\ line[NameColumns + 3] = " "
  /\ line[NameColumns + 4] = Quote
  /\ line[Len(line) - 1] = Quote
  /\ line[Len(line)] = LF

\* what stands between the opening and the closing quote
QuotedText(line) == SubSeq(line, NameColumns + 5, Len(line) - 2)

\* every quote of s is one of a pair of adjacent quotes
RECURSIVE QuotesPaired(_)
QuotesPaired(s) ==
  IF s = <<>> THEN TRUE
  ELSE IF Head(s) # Quote THEN QuotesPaired(Tail(s))
  ELSE Len(s) >= 2 /\ s[2] = Quote /\ QuotesPaired(Tail(Tail(s)))

\* C7: the Message formatter emits '  <name, 15 columns> "<text>"\n' in which
\* every quote of the message text appears doubled and no single quote remains
\* between the opening and the closing quote.
Thm_C7 ==
  MessageFormatted =>
    /\ LineShape(formatted.text)
    /\ Count(QuotedText(formatted.text), Quote) = 2 * Count(MessageSource, Quote)
    /\ QuotesPaired(QuotedText(formatted.text))

Witness_C7 ==
  /\ MessageFormatted
  /\ Count(MessageSource, Quote) = 2
  /\ item.name = LongName

\* the line-break occurrences of s, CR LF counting as one
Breaks(s) ==
  Cardinality({i \in 1..Len(s) :
                 \/ s[i] = LF
                 \/ s[i] = CR /\ (i = Len(s) \/ s[i + 1] # LF)})

\* occurrences of the two characters backslash, n
EscapedBreaks(s) ==
  Cardinality({i \in 1..(Len(s) - 1) : s[i] = BackSlash /\ s[i + 1] = "n"})

Tokens(s) == Cardinality({i \in 1..Len(s) : IsToken(s[i])})

\* C8: every line break of the message text (CR, LF, or CR LF as one) is
\* replaced by backslash n, and no raw CR or LF is left in the quoted text.
Thm_C8 ==
  MessageFormatted =>
    /\ Count(QuotedText(formatted.text), CR) = 0
    /\ Count(QuotedText(formatted.text), LF) = 0
    /\ Tokens(MessageSource) = 0 =>
         /\ EscapedBreaks(QuotedText(formatted.text))
              = EscapedBreaks(MessageSource) + Breaks(MessageSource)
         /\ Len(QuotedText(formatted.text))
              = Len(MessageSource) + Count(MessageSource, Quote)
                  + 2 * Breaks(MessageSource)
                  - (Count(MessageSource, CR) + Count(MessageSource, LF))

Witness_C8 ==
  /\ MessageFormatted
  /\ \E i \in 1..(Len(MessageSource) - 2) :
       /\ MessageSource[i] = CR /\ MessageSource[i + 1] = LF
       /\ MessageSource[i + 2] = CR
  /\ Count(MessageSource, LF) = 2

\* the text RcSection.Format starts from
StructureSource == item.text \o <<LF, LF>>

\* a structure node rendered by RcSection.Format
StructureFormatted ==
  /\ item.kind = "structure" /\ rcinclude = NoRcInclude
  /\ formatted.status = "ok" /\ ~item.excluded

\* C9 (as claimed): the rendered text of a message or structure is substituted
\* only when the root carries a Substituter and the node enables expansion;
\* otherwise its placeholder tokens are emitted unchanged.
Cex_C9 ==
  /\ MessageFormatted =>
       Tokens(QuotedText(formatted.text)) =
         IF root.substituter.present /\ item.expand THEN 0 ELSE Tokens(MessageSource)
  /\ StructureFormatted =>
       formatted.text =
         IF root.substituter.present /\ item.expand
         THEN Substitute(root.substituter.subs, StructureSource)
         ELSE StructureSource

\* C9 (amended): a structure's text is substituted only when the root carries a
\* Substituter and the structure's expand-variables flag is set; a message's
\* escaped text is substituted whenever the root carries a Substituter,
\* whatever the message's flag; without a Substituter on the root the text of
\* either is emitted with its placeholder tokens unchanged.
Thm_C9 ==
  /\ MessageFormatted =>
       /\ LineShape(formatted.text)
       /\ Tokens(QuotedText(formatted.text)) =
            IF root.substituter.present THEN 0 ELSE Tokens(MessageSource)
  /\ StructureFormatted =>
       /\ formatted.text =
            IF root.substituter.present /\ item.expand
            THEN Substitute(root.substituter.subs, StructureSource)
            ELSE StructureSource
       /\ Tokens(formatted.text) =
            IF root.substituter.present /\ item.expand THEN 0 ELSE Tokens(item.text)

Witness_C9 ==
  /\ MessageFormatted
  /\ root.substituter.present /\ ~item.expand
  /\ Tokens(MessageSource) > 0

-----------------------------------------------------------------------------
(* Properties of the tree walk *)

\* the node a chunk was written for
NodeAt(at) == IF Len(at) = 1 THEN tree[at[1]] ELSE tree[at[1]].kids[at[2]]

\* document order of chunks: a node's begin, its children in declaration
\* order, its end, then the next sibling
Before(a, b) ==
  \/ a.at[1] < b.at[1]
  \/ /\ a.at[1] = b.at[1]
     /\ \/ Len(a.at) = 1 /\ a.part = "begin" /\ (Len(b.at) = 2 \/ b.part = "end")
        \/ Len(a.at) = 2 /\ Len(b.at) = 1 /\ b.part = "end"
        \/ Len(a.at) = 2 /\ Len(b.at) = 2 /\ a.at[2] < b.at[2]

Chunks(at) == {k \in 1..Len(outfile) : outfile[k].at = at}

\* has the walk left the i-th child of the root
Left(i) == walk.i > i

\* C6: the walk emits in document order; a string table's begin text comes
\* before the lines of its children, these in declaration order, its end text
\* after the last of them and before any later sibling's output; a node
\* without a formatter for the output kind contributes nothing.
Thm_C6 ==
  /\ \A k, l \in 1..Len(outfile) : k < l => Before(outfile[k], outfile[l])
  /\ \A k \in 1..Len(outfile) :
       ItemFormatter(NodeAt(outfile[k].at), walk.t) # NoFormatter
  /\ \A i \in 1..Len(tree) :
       Left(i) =>
         /\ ItemFormatter(tree[i], walk.t) = "StringTable" =>
              /\ \E k, l \in Chunks(<<i>>) :
                   /\ Chunks(<<i>>) = {k, l}
                   /\ outfile[k] = Chunk(<<i>>, "begin", "STRINGTABLE\nBEGIN\n")
                   /\ outfile[l] = Chunk(<<i>>, "end", "END\n\n")
                   /\ l = k + Len(tree[i].kids) + 1
              /\ \A j \in 1..Len(tree[i].kids) :
                   \E k \in Chunks(<<i, j>>) :
                     /\ Chunks(<<i, j>>) = {k}
                     /\ outfile[k].text = "Message"
         /\ \A j \in 1..Len(tree[i].kids) :
              ItemFormatter(tree[i].kids[j], walk.t) = NoFormatter
                => Chunks(<<i, j>>) = {}
         /\ ItemFormatter(tree[i], walk.t) = NoFormatter => Chunks(<<i>>) = {}

Witness_C6 ==
  /\ walk.phase = "done"
  /\ walk.t = "rc_all"
  /\ Len(tree) = 2
  /\ tree[1].kind = "messages" /\ Len(tree[1].kids) = 2
  /\ tree[2].kind = "includes" /\ Len(tree[2].kids) = 2
  /\ ~tree[2].kids[1].cond /\ tree[2].kids[2].cond
  /\ Len(outfile) = 5

-----------------------------------------------------------------------------
(* Properties of the normalization of language codes *)

IsUpperChar(c) == \E j \in 1..26 : UpperCase[j] = c

IsLetter(c) == IsLower(c) \/ IsUpperChar(c)

\* a code of the form xx_YY: two letters of language, an underscore, two
\* letters of region in either case
RegionForm(lang) ==
  /\ Len(lang) = 5
  /\ IsLower(lang[1]) /\ IsLower(lang[2])
  /\ lang[3] = "_"
  /\ IsLetter(lang[4]) /\ IsLetter(lang[5])

\* the code xx-YY of a code xx_YY
Hyphenated(lang) == <<lang[1], lang[2], "-", Upper(lang[4]), Upper(lang[5])>>

\* the substitutions the tables give for a code matched as it stands
SubstitutionsOf(code) ==
  [ph \in Placeholders |->
     CASE ph = "GRITVERLANGCHARSETHEX" -> GetLangCharsetPair(code).value
       [] ph = "GRITVERLANGID" -> GetLangIdHex(code).value
       [] ph = "GRITVERCHARSETID" -> GetCharsetIdDecimal(code).value]

\* C11: the substitutions built for a code xx_YY, its region in upper or in
\* lower case, are those of the table entry xx-YY; for a code without that form
\* they are those of the code matched unchanged.
Cex_C11 ==
  LookedUp("RcSubstitutions") =>
    /\ looked.RcSubstitutions.status = "ok"
    /\ looked.RcSubstitutions.value =
         IF RegionForm(language) THEN SubstitutionsOf(Hyphenated(language))
         ELSE SubstitutionsOf(language)

-----------------------------------------------------------------------------
(* Properties of the derived lookups *)

DecimalDigits == <<"0", "1", "2", "3", "4", "5", "6", "7", "8", "9">>

IsDecimalDigit(c) == \E i \in 1..10 : DecimalDigits[i] = c

\* the number a string of decimal digits renders
RECURSIVE DecimalValue(_)
DecimalValue(s) ==
  IF s = <<>> THEN 0
  ELSE 10 * DecimalValue(SubSeq(s, 1, Len(s) - 1))
         + (CHOOSE i \in 1..10 : DecimalDigits[i] = s[Len(s)]) - 1

\* the decimal rendering of a number: digits only, no leading zero
IsDecimalRendering(s, n) ==
  /\ s # <<>>
  /\ \A i \in 1..Len(s) : IsDecimalDigit(s[i])
  /\ Len(s) > 1 => s[1] # "0"
  /\ DecimalValue(s) = n

\* the base-16 value of four hex digits
HexValue4(d) ==
  4096 * HexDigitValue(d[1]) + 256 * HexDigitValue(d[2])
    + 16 * HexDigitValue(d[3]) + HexDigitValue(d[4])

KnownCode(lang) == lang \in DOMAIN LANGUAGE_CHARSET_PAIR

\* C12 (as claimed): for a code of the charset-pair table GetLangIdHex returns
\* the first 4 hex digits of its pair.
Cex_C12 ==
  (KnownCode(language) /\ LookedUp("GetLangIdHex"))
    => looked.GetLangIdHex.value = SubSeq(LANGUAGE_CHARSET_PAIR[language], 1, 4)

\* C12 (amended): for a code of the charset-pair table, whose pair is 8 hex
\* digits, GetLangIdHex returns '0x' followed by the first 4 digits of the pair,
\* and GetCharsetIdDecimal returns the decimal rendering of the base-16 value
\* of the trailing 4 digits ('04b0' gives '1200').
Thm_C12 ==
  KnownCode(language) =>
    LET pair == LANGUAGE_CHARSET_PAIR[language]
        trailing == SubSeq(pair, 5, 8)
    IN  /\ Len(pair) = 8
        /\ \A i \in 1..8 : IsHexDigit(pair[i])
        /\ LookedUp("GetLangIdHex") =>
             /\ looked.GetLangIdHex.status = "ok"
             /\ looked.GetLangIdHex.value = <<"0", "x">> \o SubSeq(pair, 1, 4)
        /\ LookedUp("GetCharsetIdDecimal") =>
             /\ looked.GetCharsetIdDecimal.status = "ok"
             /\ IsDecimalRendering(looked.GetCharsetIdDecimal.value,
                                   HexValue4(trailing))
             /\ trailing = <<"0", "4", "b", "0">>
                  => looked.GetCharsetIdDecimal.value = <<"1", "2", "0", "0">>

Witness_C12 ==
  /\ KnownCode(language)
  /\ SubSeq(LANGUAGE_CHARSET_PAIR[language], 5, 8) = <<"0", "4", "b", "0">>
  /\ LookedUp("GetLangIdHex")
  /\ LookedUp("GetCharsetIdDecimal")

-----------------------------------------------------------------------------
(* Properties of the preamble *)

PreambleFormatted == preamble.status = "ok"

\* the #include line that names the header of the i-th registered output
IncludeOf(i) ==
  <<"#include \"">>
    \o Replace(MakeRelativePath(pass.output_dir, outputs[i].filename, sep),
               BackSlash, <<BackSlash, BackSlash>>)
    \o <<"\"">>

IncludeResourceH == <<"#include \"">> \o ResourceH \o <<"\"">>

HeaderOutputs == {i \in 1..Len(outputs) : outputs[i].type = "rc_header"}

OutputsOfPassLanguage == {i \in 1..Len(outputs) : outputs[i].lang = pass.lang}

Last(S) == CHOOSE i \in S : \A j \in S : j <= i

\* C13 (as claimed): the #include line names the header of a header output of
\* the pass language, and is #include "resource.h" when there is none; a header
\* output of another language is not used.
Cex_C13 ==
  PreambleFormatted =>
    IF HeaderOutputs \cap OutputsOfPassLanguage = {}
    THEN preamble.include = IncludeResourceH
    ELSE \E i \in HeaderOutputs \cap OutputsOfPassLanguage :
           preamble.include = IncludeOf(i)

\* C13 (amended): the #include line names the header of the last registered
\* header output, whatever its language, relative to the destination directory
\* with backslashes doubled, and is #include "resource.h" when no header output
\* is registered.
Thm_C13 ==
  PreambleFormatted =>
    preamble.include =
      IF HeaderOutputs = {} THEN IncludeResourceH ELSE IncludeOf(Last(HeaderOutputs))

Witness_C13 ==
  /\ PreambleFormatted
  /\ sep = BackSlash
  /\ Len(outputs) = 2
  /\ HeaderOutputs = {1, 2}
  /\ outputs[1].lang = pass.lang /\ outputs[2].lang # pass.lang
  /\ outputs[1].filename # outputs[2].filename
  /\ Count(preamble.include, BackSlash) = 6

\* C14: the LANGUAGE line is set by the last registered output of the pass
\* language alone: nothing for language_section '', the neutral directive for
\* 'neutral', 'LANGUAGE ' and the table's directive of the pass language for
\* 'lang'; there is no LANGUAGE line when no output has the pass language.
Thm_C14 ==
  PreambleFormatted =>
    IF OutputsOfPassLanguage = {} THEN preamble.language = <<>>
    ELSE LET output == outputs[Last(OutputsOfPassLanguage)]
         IN  /\ output.language_section = "" => preamble.language = <<>>
             /\ output.language_section = "neutral"
                  => preamble.language = <<"LANGUAGE LANG_NEUTRAL, SUBLANG_NEUTRAL">>
             /\ output.language_section = "lang"
                  => preamble.language =
                       <<"LANGUAGE ", LANGUAGE_DIRECTIVE_PAIR[pass.lang]>>

Witness_C14 ==
  /\ PreambleFormatted
  /\ Len(outputs) = 2
  /\ outputs[1].lang = pass.lang /\ outputs[1].language_section = "lang"
  /\ outputs[2].lang # pass.lang /\ outputs[2].language_section = "neutral"
  /\ preamble.language = <<"LANGUAGE ", "LANG_FRENCH, SUBLANG_FRENCH">>

-----------------------------------------------------------------------------
(* Properties of the RcInclude formatter *)

\* the path the line of an include node names, by the precedence of its flags
NamedPath(output_dir) ==
  IF attrs.flattenhtml = "true" THEN FlatBaseName
  ELSE IF attrs.filenameonly = "true" THEN BaseName(ToRealPath(sep), sep)
  ELSE IF attrs.relativepath = "true"
       THEN MakeRelativePath(output_dir, ToRealPath(sep), sep)
  ELSE ToRealPath(sep)

\* the one line '<name, 18 columns> <type, 18 columns> "<path>"\n'
ExpectedIncludeLine(output_dir) ==
  LJust(attrs.name, 18) \o <<" ">> \o LJust(UpperStr(attrs.type), 18)
    \o <<" ", Quote>>
    \o Replace(NamedPath(output_dir), BackSlash, <<BackSlash, BackSlash>>)
    \o <<Quote, LF>>

\* C15: every RcInclude.Format of an include node that no I/O failure stops
\* returns the one line naming the path its flags select (flattenhtml before
\* filenameonly before relativepath), backslashes doubled.
Cex_C15 ==
  (ret.op = "Format" /\ ret.status # "IOError")
    => (ret.status = "ok" /\ ret.name = ExpectedIncludeLine(ret.dir))

-----------------------------------------------------------------------------
(* Properties of excluded structure nodes *)

\* C16: whenever RcSection.Format or RcInclude.Format returns for a structure
\* node excluded from RC, it returns the empty string, whatever the node's
\* text, the formatter's flags and the pass are.
Thm_C16 ==
  (item.kind = "structure" /\ item.excluded /\ formatted.status = "ok")
    => formatted.text = <<>>

Witness_C16 ==
  /\ item.kind = "structure" /\ item.excluded
  /\ item.text # <<>>
  /\ rcinclude # NoRcInclude
  /\ rcinclude.flatten_html /\ rcinclude.filenameWithoutPath
  /\ formatted.status = "ok"

-----------------------------------------------------------------------------
(* Properties of GetDataPackPair *)

DataPackCall == ret'.op = "GetDataPackPair" /\ calls' = calls + 1

\* C17: a GetDataPackPair call on a node whose textual id has no entry in the
\* id table raises KeyError, invokes no inlining and leaves the flatten caches
\* and the files as they were; with an entry, a call that returns gives the id
\* and the bytes of the flattened-bytes cache when flattenhtml is 'true' (the
\* cache is filled first when it is empty), the bytes of the source file
\* otherwise; the language and the encoding passed in have no part in it.
Thm_C17 ==
  [][ DataPackCall =>
        IF attrs.name \notin tids
        THEN /\ ret'.status = "KeyError"
             /\ inlineLog' = inlineLog
             /\ flattened_data' = flattened_data
             /\ last_flat_filename' = last_flat_filename
             /\ fs' = fs /\ writeLog' = writeLog
        ELSE /\ ret'.status \in {"ok", "IOError"}
             /\ ret'.status = "ok" =>
                  /\ ret'.id = NodeId
                  /\ ret'.data =
                       IF attrs.flattenhtml = "true" THEN flattened_data' ELSE source
                  /\ (attrs.flattenhtml = "true" /\ flattened_data \notin {NoneData, ""})
                       => (ret'.data = flattened_data /\ inlineLog' = inlineLog)
                  /\ attrs.flattenhtml # "true"
                       => (flattened_data' = flattened_data /\ inlineLog' = inlineLog)
      ]_vars

Witness_C17 ==
  /\ ret.op = "GetDataPackPair" /\ ret.status = "KeyError"
  /\ attrs.name \notin tids
  /\ attrs.flattenhtml = "true"
  /\ flattened_data = "flat"
  /\ Len(inlineLog) = 1
  /\ calls = 2

\* C18: after a Process call, failed or not, the destination file is as it was
\* before the call or holds the complete flattened bytes, and a failed call
\* leaves the last-flattened path as it was.
Cex_C18 ==
  [][ (ret'.op = "Process" /\ calls' = calls + 1) =>
        LET flat_filename == FlatFilename(ret'.dir) IN
        /\ \/ fs'[flat_filename] = fs[flat_filename]
           \/ fs'[flat_filename] = InlineToString(source, FALSE)
           \/ fs'[flat_filename] = flattened_data /\ flattened_data \notin {NoneData, ""}
        /\ ret'.status # "ok" => last_flat_filename' = last_flat_filename
      ]_vars

\* C19: the bytes GetDataPackPair returns for a node with flattenhtml 'true' are
\* those the inliner produces with allow_external_script equal to the node's
\* allowexternalscript attribute, whatever was called on the node before.
Cex_C19 ==
  (ret.op = "GetDataPackPair" /\ ret.status = "ok" /\ attrs.flattenhtml = "true")
    => ret.data = InlineToString(source, attrs.allowexternalscript = "true")

====
